---- MODULE Spec2Model ----
(***************************************************************************)
(* The document access layer of js-drive: DocumentRepository (create,      *)
(* update, find, delete, prove, proveManyDocumentsFromDifferentContracts)  *)
(* in front of the Drive store.                                            *)
(*                                                                         *)
(* JavaScript values are modelled by strings ("undefined", "null", "true", *)
(* "false", ...); a property missing from an object is the marker          *)
(* "absent".  Error messages are sequences of one-character strings, so    *)
(* that String.startsWith and String.substring are computed as the code    *)
(* computes them.                                                          *)
(***************************************************************************)
EXTENDS Integers, Sequences, FiniteSets, TLC

VARIABLES
  docs,      \* the store: the set of the documents it holds
  before,    \* the store as it was when the last call began
  logger,    \* whether the repository was constructed with a logger
  call,      \* the last repository call: operation and arguments
  driveCall, \* what that call handed to the store, and the store's answer
  result,    \* what that call gave its caller: a value or a thrown error
  logged,    \* the log entries that call emitted, in order
  events,    \* the steps of that call, in order
  kv,        \* the key-value side of the store: committed and per transaction
  fs         \* the file system entry at HOME_DIR_PATH

vars == <<docs, before, logger, call, driveCall, result, logged, events, kv, fs>>

-----------------------------------------------------------------------------
(* Bounds *)

\* longest free text after the head of a store error message
MaxBody == 1
\* largest revision a caller supplies
MaxRevision == 2
\* largest block time
MaxTime == 1
\* largest fee or processing cost the store reports
MaxFee == 1
\* most items of one proveManyDocumentsFromDifferentContracts call
MaxItems == 2

-----------------------------------------------------------------------------
(* JavaScript values *)

Absent == "absent"
Undefined == "undefined"
Null == "null"

\* x is truthy
Truthy(x) == x \notin {Absent, Undefined, Null, "false"}

\* Boolean(x)
Boolean(x) == IF Truthy(x) THEN "true" ELSE "false"

\* reading a property: a missing property reads as undefined
Get(x) == IF x = Absent THEN Undefined ELSE x

-----------------------------------------------------------------------------
(* Strings *)

QueryPrefix == <<"q", "u", "e", "r", "y", ":", " ">>
StructurePrefix == <<"s", "t", "r", "u", "c", "t", "u", "r", "e", ":", " ">>
ContractPrefix == <<"c", "o", "n", "t", "r", "a", "c", "t", ":", " ">>
ProtocolPrefix == <<"p", "r", "o", "t", "o", "c", "o", "l", ":", " ">>

\* s.startsWith(p)
StartsWith(s, p) == Len(s) >= Len(p) /\ SubSeq(s, 1, Len(p)) = p

\* s.substring(from, s.length)
Substring(s, from) == SubSeq(s, from + 1, Len(s))

\* p without its last character
Chop(p) == SubSeq(p, 1, Len(p) - 1)

RECURSIVE SeqsUpTo(_, _)
SeqsUpTo(S, n) ==
  IF n = 0 THEN {<<>>}
  ELSE LET shorter == SeqsUpTo(S, n - 1)
       IN shorter \cup {Append(s, c) : s \in shorter, c \in S}

\* the heads of the messages the store may fail with: the four prefixes the
\* repository knows, each also without its space, and heads it does not know
Heads ==
  { QueryPrefix, StructurePrefix, ContractPrefix, ProtocolPrefix,
    Chop(QueryPrefix), Chop(StructurePrefix), Chop(ContractPrefix),
    Chop(ProtocolPrefix),
    <<"s", "t", "o", "r", "a", "g", "e", ":", " ">>,
    <<"Q", "u", "e", "r", "y", ":", " ">>,
    <<>> }

Bodies == SeqsUpTo({"b", " "}, MaxBody) \cup {QueryPrefix \o <<"b">>}

Messages == {h \o b : h \in Heads, b \in Bodies}

-----------------------------------------------------------------------------
(* Errors *)

\* an error raised by the store
DriveError(name, message) ==
  [name |-> name, message |-> message, origin |-> "drive"]

\* new InvalidQueryError(message)
InvalidQueryError(message) ==
  [name |-> "InvalidQueryError", message |-> message, origin |-> "repository"]

Returned(value) == [ok |-> TRUE, value |-> value]
Thrown(error) == [ok |-> FALSE, error |-> error]

\* new StorageResult(value, operations)
StorageResult(value, operations) == [value |-> value, operations |-> operations]

\* new PreCalculatedOperation(storageCost, processingCost, feeRefunds)
PreCalculatedOperation(storageCost, processingCost, feeRefunds) ==
  [storageCost |-> storageCost, processingCost |-> processingCost,
   feeRefunds |-> feeRefunds]

-----------------------------------------------------------------------------
(* Query options *)

ControlKeys == {"useTransaction", "dryRun", "blockInfo"}
QueryKeys == {"where", "startAt", "startAfter"}
Keys == ControlKeys \cup QueryKeys

ValuesOf(k) ==
  CASE k = "useTransaction" -> {Absent, Undefined, "true", "false"}
    [] k = "dryRun" -> {Absent, "true"}
    [] k = "blockInfo" -> {Absent, Undefined, Null, "block1"}
    [] k = "where" -> {Absent, Undefined, Null, "id1"}
    [] k = "startAt" -> {Absent, Undefined, "cursor1"}
    [] k = "startAfter" -> {Absent, Null, "cursor1"}

NoFields == [k \in Keys |-> Absent]

ObjectOptions ==
  {[kind |-> "object", fields |-> f] :
     f \in {g \in [Keys -> UNION {ValuesOf(k) : k \in Keys}] :
              \A k \in Keys : g[k] \in ValuesOf(k)}}

\* find(dataContract, documentType, null) and find(..., [])
OtherOptions ==
  {[kind |-> "null", fields |-> NoFields], [kind |-> "array", fields |-> NoFields]}

Options == ObjectOptions \cup OtherOptions

\* blockInfo.epoch
EpochOf(blockInfo) == IF blockInfo = "block1" THEN "epoch1" ELSE Undefined

-----------------------------------------------------------------------------
(* The store (Drive): its query side *)

DocIds == {1, 2}
Revisions == 0..MaxRevision
Times == 0..MaxTime
Fees == 0..MaxFee

\* a document as the store holds it; revision 0 is a revision not yet set
Documents ==
  [id : DocIds, revision : Revisions, createdAt : Times, updatedAt : Times]

IsSet(v) == v \notin {Absent, Undefined, Null}

\* the message the store rejects a query with both cursors with
DuplicateStartMessage == QueryPrefix \o <<"d", "u", "p">>

\* the documents of the store a query selects; the where clause "id1" and
\* the cursor "cursor1" name document 1
Matching(store, query) ==
  {d \in store :
     /\ IsSet(query.fields["where"]) => d.id = 1
     /\ IsSet(query.fields["startAt"]) => d.id >= 1
     /\ IsSet(query.fields["startAfter"]) => d.id > 1}

\* what the store may answer a query with, apart from what the query decides:
\* a failure with any message, or a processing cost
QueryAnswers ==
  [fails : {TRUE}, message : Messages, cost : {0}]
    \cup [fails : {FALSE}, message : {<<>>}, cost : Fees]

\* queryDocuments / proveDocumentsQuery: a query with both cursors is rejected
\* before the store is read
DriveQuery(store, query, answer) ==
  IF IsSet(query.fields["startAt"]) /\ IsSet(query.fields["startAfter"])
  THEN Thrown(DriveError("Error", DuplicateStartMessage))
  ELSE IF answer.fails
  THEN Thrown(DriveError("Error", answer.message))
  ELSE Returned([documents |-> Matching(store, query), cost |-> answer.cost])

\* the proof the store builds of a set of documents
ProofOf(documents) == [proves |-> documents]

\* the root hash was not asked for
NotRead == [read |-> FALSE]

-----------------------------------------------------------------------------
(* DocumentRepository.find *)

\* typeof query === 'object' && !Array.isArray(query) && query !== null
IsPlainObject(query) == query.kind = "object"

\* lodashCloneDeep(options)
CloneDeep(options) == options

\* the objects the caller handed over: the options object itself and the
\* objects nested in it (blockInfo, where, startAt, ...)
CallerObjects == {"options", "nested"}

\* const query = options: the query is the caller's own object
AliasShares(options) == CallerObjects

\* lodashCloneDeep(options): the objects of the caller that the clone is or
\* holds; a deep clone is a new object at every depth
CloneDeepShares(options) == {}

\* the caller's options once the delete statements ran on the query: they
\* reach the caller's object exactly when the query is that object
OptionsAfter(options, query, shares) ==
  IF "options" \in shares THEN query ELSE options

\* find as it would be if it did not delete blockInfo
FindQueryKeepsBlockInfo(options) ==
  LET query == CloneDeep(options)
  IN IF IsPlainObject(query)
     THEN [query EXCEPT !.fields =
             [k \in Keys |->
                IF k \in {"useTransaction", "dryRun"} THEN Absent
                ELSE IF query.fields[k] = Undefined THEN Absent
                ELSE query.fields[k]]]
     ELSE query

\* find as it would be if it tested query[queryOption] == undefined, which
\* null satisfies too
FindQueryDropsNull(options) ==
  LET query == CloneDeep(options)
  IN IF IsPlainObject(query)
     THEN [query EXCEPT !.fields =
             [k \in Keys |->
                IF k \in {"useTransaction", "dryRun", "blockInfo"} THEN Absent
                ELSE IF query.fields[k] \in {Undefined, Null} THEN Absent
                ELSE query.fields[k]]]
     ELSE query

\* the query find forwards: the clone of the options without useTransaction,
\* dryRun and blockInfo, and without the keys whose value is undefined
FindQuery(options) ==
  LET query == CloneDeep(options)
  IN IF IsPlainObject(query)
     THEN [query EXCEPT !.fields =
             [k \in Keys |->
                IF k \in {"useTransaction", "dryRun", "blockInfo"} THEN Absent
                ELSE IF query.fields[k] = Undefined THEN Absent
                ELSE query.fields[k]]]
     ELSE query

\* let useTransaction = false; ({ useTransaction } = query)
FindUseTransaction(options) ==
  IF IsPlainObject(CloneDeep(options))
  THEN Get(options.fields["useTransaction"])
  ELSE "false"

\* if (options && options.blockInfo) epochIndex = options.blockInfo.epoch
FindEpochIndex(options) ==
  IF options.kind # "null" /\ Truthy(options.fields["blockInfo"])
  THEN EpochOf(options.fields["blockInfo"])
  ELSE Undefined

\* the catch block of find as it would be with 'structure: ' cut at 10
FindCatchCutsShort(e) ==
  IF StartsWith(e.message, QueryPrefix)
  THEN InvalidQueryError(Substring(e.message, 7))
  ELSE IF StartsWith(e.message, StructurePrefix)
  THEN InvalidQueryError(Substring(e.message, 10))
  ELSE IF StartsWith(e.message, ContractPrefix)
  THEN InvalidQueryError(Substring(e.message, 10))
  ELSE IF StartsWith(e.message, ProtocolPrefix)
  THEN InvalidQueryError(Substring(e.message, 10))
  ELSE e

\* the catch block of find as it would be if it wrapped every error
FindCatchWrapsAll(e) ==
  IF StartsWith(e.message, QueryPrefix)
  THEN InvalidQueryError(Substring(e.message, 7))
  ELSE IF StartsWith(e.message, StructurePrefix)
  THEN InvalidQueryError(Substring(e.message, 11))
  ELSE IF StartsWith(e.message, ContractPrefix)
  THEN InvalidQueryError(Substring(e.message, 10))
  ELSE IF StartsWith(e.message, ProtocolPrefix)
  THEN InvalidQueryError(Substring(e.message, 10))
  ELSE InvalidQueryError(e.message)

\* the catch block of find as it would be without its 'query: ' case
FindCatchNoQuery(e) ==
  IF StartsWith(e.message, StructurePrefix)
  THEN InvalidQueryError(Substring(e.message, 11))
  ELSE IF StartsWith(e.message, ContractPrefix)
  THEN InvalidQueryError(Substring(e.message, 10))
  ELSE IF StartsWith(e.message, ProtocolPrefix)
  THEN InvalidQueryError(Substring(e.message, 10))
  ELSE e

\* the catch block of find
FindCatch(e) ==
  IF StartsWith(e.message, QueryPrefix)
  THEN InvalidQueryError(Substring(e.message, 7))
  ELSE IF StartsWith(e.message, StructurePrefix)
  THEN InvalidQueryError(Substring(e.message, 11))
  ELSE IF StartsWith(e.message, ContractPrefix)
  THEN InvalidQueryError(Substring(e.message, 10))
  ELSE IF StartsWith(e.message, ProtocolPrefix)
  THEN InvalidQueryError(Substring(e.message, 10))
  ELSE e

\* find as it would be if it booked the processing cost as storage fee too
FindResultChargesStorage(answered) ==
  IF answered.ok
  THEN Returned(StorageResult(answered.value.documents,
                  <<PreCalculatedOperation(answered.value.cost,
                                           answered.value.cost, {})>>))
  ELSE Thrown(FindCatch(answered.error))

\* what find gives its caller for what the store answered
FindResult(answered) ==
  IF answered.ok
  THEN Returned(StorageResult(answered.value.documents,
                  <<PreCalculatedOperation(0, answered.value.cost, {})>>))
  ELSE Thrown(FindCatch(answered.error))

Find(options, answer) ==
  LET query == FindQuery(options)
      answered == DriveQuery(docs, query, answer)
  IN /\ call' = [op |-> "find", options |-> options,
                 optionsAfter |->
                   OptionsAfter(options, query, CloneDeepShares(options))]
     /\ driveCall' = [method |-> "queryDocuments",
                      shares |-> CloneDeepShares(options),
                      epochIndex |-> FindEpochIndex(options),
                      query |-> query,
                      useTransaction |-> FindUseTransaction(options),
                      answered |-> answered,
                      root |-> NotRead]
     /\ result' = FindResult(answered)
     /\ logged' = <<>>
     /\ events' = <<"queryDocuments", IF answered.ok THEN "return" ELSE "throw">>
     /\ before' = docs
     /\ UNCHANGED <<docs, logger, kv, fs>>

-----------------------------------------------------------------------------
(* DocumentRepository.prove *)

\* the query prove forwards: the clone of the options without useTransaction
\* and dryRun, and without the keys whose value is undefined
ProveQuery(options) ==
  LET query == CloneDeep(options)
  IN IF IsPlainObject(query)
     THEN [query EXCEPT !.fields =
             [k \in Keys |->
                IF k \in {"useTransaction", "dryRun"} THEN Absent
                ELSE IF query.fields[k] = Undefined THEN Absent
                ELSE query.fields[k]]]
     ELSE query

\* let useTransaction = false; ({ useTransaction } = query)
ProveUseTransaction(options) ==
  IF IsPlainObject(CloneDeep(options))
  THEN Get(options.fields["useTransaction"])
  ELSE "false"

\* the catch block of prove as it would be with the 'protocol: ' case of find
ProveCatchWithProtocol(e) ==
  IF StartsWith(e.message, QueryPrefix)
  THEN InvalidQueryError(Substring(e.message, 7))
  ELSE IF StartsWith(e.message, StructurePrefix)
  THEN InvalidQueryError(Substring(e.message, 11))
  ELSE IF StartsWith(e.message, ContractPrefix)
  THEN InvalidQueryError(Substring(e.message, 10))
  ELSE IF StartsWith(e.message, ProtocolPrefix)
  THEN InvalidQueryError(Substring(e.message, 10))
  ELSE e

\* the catch block of prove
ProveCatch(e) ==
  IF StartsWith(e.message, QueryPrefix)
  THEN InvalidQueryError(Substring(e.message, 7))
  ELSE IF StartsWith(e.message, StructurePrefix)
  THEN InvalidQueryError(Substring(e.message, 11))
  ELSE IF StartsWith(e.message, ContractPrefix)
  THEN InvalidQueryError(Substring(e.message, 10))
  ELSE e

\* what prove gives its caller for what the store answered
ProveResult(answered) ==
  IF answered.ok
  THEN Returned(StorageResult(ProofOf(answered.value.documents),
                  <<PreCalculatedOperation(0, answered.value.cost, {})>>))
  ELSE Thrown(ProveCatch(answered.error))

Prove(options, answer) ==
  LET query == ProveQuery(options)
      answered == DriveQuery(docs, query, answer)
  IN /\ call' = [op |-> "prove", options |-> options,
                 optionsAfter |->
                   OptionsAfter(options, query, CloneDeepShares(options))]
     /\ driveCall' = [method |-> "proveDocumentsQuery",
                      shares |-> CloneDeepShares(options),
                      epochIndex |-> Undefined,
                      query |-> query,
                      useTransaction |-> ProveUseTransaction(options),
                      answered |-> answered,
                      root |-> NotRead]
     /\ result' = ProveResult(answered)
     /\ logged' = <<>>
     /\ events' = <<"proveDocumentsQuery", IF answered.ok THEN "return" ELSE "throw">>
     /\ before' = docs
     /\ UNCHANGED <<docs, logger, kv, fs>>

-----------------------------------------------------------------------------
(* The store (Drive): its write side and its root hash *)

\* a document a caller may hand over: its timestamps are in order
ValidDocuments == {d \in Documents : d.updatedAt >= d.createdAt}

Stored(store, id) == {d \in store : d.id = id}

\* the fee results the store reports
FeeResults ==
  {[storageFee |-> f, processingFee |-> g, feeRefunds |-> <<f + g + 1>>] :
     f, g \in Fees}

NoFee == [storageFee |-> 0, processingFee |-> 0, feeRefunds |-> <<>>]

CommitFailedMessage == <<"s", "t", "o", "r", "a", "g", "e", ":", " ", "b">>

\* what the store may answer a write with, apart from what the store's
\* contents decide: a failed commit, or a fee result
WriteAnswers ==
  [fails : {TRUE}, fee : {NoFee}] \cup [fails : {FALSE}, fee : FeeResults]

\* createDocument(document, blockInfo, useTransaction, dryRun)
DriveCreateDocument(store, document, dryRun, answer) ==
  IF Stored(store, document.id) # {}
  THEN [outcome |-> Thrown(DriveError("StoreWriteError", <<"e", "x", "i", "s", "t", "s">>)),
        store |-> store]
  ELSE IF answer.fails
  THEN [outcome |-> Thrown(DriveError("StoreWriteError", CommitFailedMessage)),
        store |-> store]
  ELSE [outcome |-> Returned(answer.fee),
        store |-> IF dryRun = "true" THEN store ELSE store \cup {document}]

\* updateDocument(document, blockInfo, useTransaction, dryRun)
DriveUpdateDocument(store, document, dryRun, answer) ==
  IF Stored(store, document.id) = {}
  THEN [outcome |-> Thrown(DriveError("NotFoundError", <<"a", "b", "s", "e", "n", "t">>)),
        store |-> store]
  ELSE IF \A d \in Stored(store, document.id) : document.revision # d.revision + 1
  THEN [outcome |-> Thrown(DriveError("RevisionConflictError", <<"r", "e", "v">>)),
        store |-> store]
  ELSE IF answer.fails
  THEN [outcome |-> Thrown(DriveError("Error", CommitFailedMessage)),
        store |-> store]
  ELSE [outcome |-> Returned(answer.fee),
        store |-> IF dryRun = "true" THEN store
                  ELSE (store \ Stored(store, document.id)) \cup {document}]

\* deleteDocument(contractId, documentType, id, blockInfo, useTransaction, dryRun)
DriveDeleteDocument(store, id, dryRun, answer) ==
  IF Stored(store, id) = {}
  THEN [outcome |-> Thrown(DriveError("NotFoundError", <<"a", "b", "s", "e", "n", "t">>)),
        store |-> store]
  ELSE IF answer.fails
  THEN [outcome |-> Thrown(DriveError("Error", CommitFailedMessage)),
        store |-> store]
  ELSE [outcome |-> Returned(answer.fee),
        store |-> IF dryRun = "true" THEN store ELSE store \ Stored(store, id)]

\* the root hash of a store: a digest of all it holds
RootHash(store) == [digest |-> store]

RootHashError ==
  [name |-> "Error", message |-> <<"r", "o", "o", "t">>, origin |-> "rootHash"]

\* whether reading the root hash succeeds is the store's to decide
RootAnswers == {"ok", "fails"}

\* storage.getRootHash(options)
GetRootHash(store, root) ==
  IF root = "fails"
  THEN [read |-> TRUE, ok |-> FALSE, error |-> RootHashError]
  ELSE [read |-> TRUE, ok |-> TRUE, hash |-> RootHash(store)]

-----------------------------------------------------------------------------
(* DocumentRepository.create, update, delete *)

\* the options of a write: only the two flags matter
WriteOptions ==
  {o \in ObjectOptions :
     \A k \in Keys \ {"useTransaction", "dryRun"} : o.fields[k] = Absent}

\* if (this.logger) { ... await this.storage.getRootHash(options) ... }
FinallyRoot(hasLogger, store, root) ==
  IF hasLogger THEN GetRootHash(store, root) ELSE NotRead

\* the steps of a write, in order
WriteEvents(method, rootRead, logs, given) ==
  <<method>>
    \o (IF rootRead.read THEN <<"getRootHash">> ELSE <<>>)
    \o [i \in 1..Len(logs) |-> "logger.info"]
    \o <<IF given.ok THEN "return" ELSE "throw">>

\* the finally block of create: the entry is built, the root hash read
\* last, and then handed to logger.info
CreateLog(document, options, rootRead) ==
  IF rootRead.read /\ rootRead.ok
  THEN <<[message |-> "createDocument",
          document |-> [hex |-> document],
          documentHash |-> [sha256 |-> document],
          useTransaction |-> Boolean(options.fields["useTransaction"]),
          dryRun |-> Boolean(options.fields["dryRun"]),
          appHash |-> [hex |-> rootRead.hash]]>>
  ELSE <<>>

\* create as it would be if it handed the two fees over in the other order
CreateResultSwapsFees(outcome, rootRead) ==
  IF rootRead.read /\ ~rootRead.ok
  THEN Thrown(rootRead.error)
  ELSE IF ~outcome.ok
  THEN Thrown(outcome.error)
  ELSE Returned(StorageResult(Undefined,
         <<PreCalculatedOperation(outcome.value.processingFee,
                                  outcome.value.storageFee,
                                  outcome.value.feeRefunds)>>))

\* what create gives its caller: a throw of the finally block replaces the
\* outcome of the try block
CreateResult(outcome, rootRead) ==
  IF rootRead.read /\ ~rootRead.ok
  THEN Thrown(rootRead.error)
  ELSE IF ~outcome.ok
  THEN Thrown(outcome.error)
  ELSE Returned(StorageResult(Undefined,
         <<PreCalculatedOperation(outcome.value.storageFee,
                                  outcome.value.processingFee,
                                  outcome.value.feeRefunds)>>))

Create(document, options, answer, root) ==
  LET useTransaction == Boolean(options.fields["useTransaction"])
      dryRun == Boolean(options.fields["dryRun"])
      stored == DriveCreateDocument(docs, document, dryRun, answer)
      rootRead == FinallyRoot(logger, stored.store, root)
      logs == CreateLog(document, options, rootRead)
      given == CreateResult(stored.outcome, rootRead)
  IN /\ call' = [op |-> "create", document |-> document, options |-> options]
     /\ driveCall' = [method |-> "createDocument",
                      document |-> document,
                      useTransaction |-> useTransaction,
                      dryRun |-> dryRun,
                      answered |-> stored.outcome,
                      root |-> rootRead]
     /\ result' = given
     /\ logged' = logs
     /\ events' = WriteEvents("createDocument", rootRead, logs, given)
     /\ before' = docs
     /\ docs' = stored.store
     /\ UNCHANGED <<logger, kv, fs>>

\* the finally block of update
UpdateLog(document, options, rootRead) ==
  IF rootRead.read /\ rootRead.ok
  THEN <<[message |-> "updateDocument",
          document |-> [hex |-> document],
          documentHash |-> [sha256 |-> document],
          useTransaction |-> Boolean(options.fields["useTransaction"]),
          dryRun |-> Boolean(options.fields["dryRun"]),
          appHash |-> [hex |-> rootRead.hash]]>>
  ELSE <<>>

\* what update gives its caller
UpdateResult(outcome, rootRead) ==
  IF rootRead.read /\ ~rootRead.ok
  THEN Thrown(rootRead.error)
  ELSE IF ~outcome.ok
  THEN Thrown(outcome.error)
  ELSE Returned(StorageResult(Undefined,
         <<PreCalculatedOperation(outcome.value.storageFee,
                                  outcome.value.processingFee,
                                  outcome.value.feeRefunds)>>))

\* update as it would be if it always asked for a dry run
UpdateDryRunAlways(options) == "true"

\* the dryRun argument update hands to the store
UpdateDryRun(options) == Boolean(options.fields["dryRun"])

Update(document, options, answer, root) ==
  LET useTransaction == Boolean(options.fields["useTransaction"])
      dryRun == UpdateDryRun(options)
      stored == DriveUpdateDocument(docs, document, dryRun, answer)
      rootRead == FinallyRoot(logger, stored.store, root)
      logs == UpdateLog(document, options, rootRead)
      given == UpdateResult(stored.outcome, rootRead)
  IN /\ call' = [op |-> "update", document |-> document, options |-> options]
     /\ driveCall' = [method |-> "updateDocument",
                      document |-> document,
                      useTransaction |-> useTransaction,
                      dryRun |-> dryRun,
                      answered |-> stored.outcome,
                      root |-> rootRead]
     /\ result' = given
     /\ logged' = logs
     /\ events' = WriteEvents("updateDocument", rootRead, logs, given)
     /\ before' = docs
     /\ docs' = stored.store
     /\ UNCHANGED <<logger, kv, fs>>

\* the finally block of delete
DeleteLog(id, options, rootRead) ==
  IF rootRead.read /\ rootRead.ok
  THEN <<[message |-> "deleteDocument",
          id |-> id,
          useTransaction |-> Boolean(options.fields["useTransaction"]),
          appHash |-> [hex |-> rootRead.hash]]>>
  ELSE <<>>

\* what delete gives its caller: the return sits in the try block, and a
\* throw of the finally block replaces it as well
DeleteResult(outcome, rootRead) ==
  IF rootRead.read /\ ~rootRead.ok
  THEN Thrown(rootRead.error)
  ELSE IF ~outcome.ok
  THEN Thrown(outcome.error)
  ELSE Returned(StorageResult(Undefined,
         <<PreCalculatedOperation(outcome.value.storageFee,
                                  outcome.value.processingFee,
                                  outcome.value.feeRefunds)>>))

Delete(id, options, answer, root) ==
  LET useTransaction == Boolean(options.fields["useTransaction"])
      dryRun == Boolean(options.fields["dryRun"])
      stored == DriveDeleteDocument(docs, id, dryRun, answer)
      rootRead == FinallyRoot(logger, stored.store, root)
      logs == DeleteLog(id, options, rootRead)
      given == DeleteResult(stored.outcome, rootRead)
  IN /\ call' = [op |-> "delete", id |-> id, options |-> options]
     /\ driveCall' = [method |-> "deleteDocument",
                      id |-> id,
                      useTransaction |-> useTransaction,
                      dryRun |-> dryRun,
                      answered |-> stored.outcome,
                      root |-> rootRead]
     /\ result' = given
     /\ logged' = logs
     /\ events' = WriteEvents("deleteDocument", rootRead, logs, given)
     /\ before' = docs
     /\ docs' = stored.store
     /\ UNCHANGED <<logger, kv, fs>>

-----------------------------------------------------------------------------
(* Specifications *)

NoCall == [op |-> "none"]

\* a key-value store nothing was put into
NoValue == [present |-> FALSE, bytes |-> <<>>]

EmptyStore == [committed |-> NoValue, inTransaction |-> NoValue]

\* no entry at HOME_DIR_PATH
NoEntry == [kind |-> "none"]

\* a repository over an empty store, constructed with or without a logger
Init ==
  /\ docs = {}
  /\ before = {}
  /\ logger \in BOOLEAN
  /\ call = NoCall
  /\ driveCall = NoCall
  /\ result = NoCall
  /\ logged = <<>>
  /\ events = <<>>
  /\ kv = EmptyStore
  /\ fs = NoEntry

\* the documents that are written in a run of calls: those of document 1
Written == {d \in ValidDocuments : d.id = 1}

\* the options of the writes of a run of calls
RunOptions ==
  {o \in WriteOptions :
     o.fields["useTransaction"] = Absent /\ o.fields["dryRun"] \in {Absent, "true"}}

\* the answers of the store in a run of calls: the commit goes through, at
\* one fee
RunAnswers ==
  {a \in WriteAnswers :
     ~a.fails /\ a.fee.storageFee = 0 /\ a.fee.processingFee = 0}

\* a fetch of document 1
FetchOptions ==
  {o \in ObjectOptions :
     /\ o.fields["where"] = "id1"
     /\ \A k \in Keys \ {"where"} : o.fields[k] = Absent}

FetchAnswers ==
  {a \in QueryAnswers : (~a.fails /\ a.cost = 0) \/ a.message = CommitFailedMessage}

\* the root hash is read only with a logger
RootChoices == IF logger THEN RootAnswers ELSE {"ok"}

\* a run of calls, one after the other, on one repository
Next ==
  \/ \E d \in Written, o \in RunOptions, a \in RunAnswers, r \in RootChoices :
       Create(d, o, a, r)
  \/ \E d \in Written, o \in RunOptions, a \in RunAnswers, r \in RootChoices :
       Update(d, o, a, r)
  \/ \E i \in DocIds, o \in RunOptions, a \in RunAnswers, r \in RootChoices :
       Delete(i, o, a, r)
  \/ \E o \in FetchOptions, a \in FetchAnswers : Find(o, a)

Spec == Init /\ [][Next]_vars

\* the stores a single call is made on
SampleStores ==
  {{}, {[id |-> 1, revision |-> 1, createdAt |-> 0, updatedAt |-> 0]},
   {[id |-> 1, revision |-> 1, createdAt |-> 0, updatedAt |-> 0],
    [id |-> 2, revision |-> 0, createdAt |-> 0, updatedAt |-> 0]}}

InitCall ==
  /\ docs \in SampleStores
  /\ before = docs
  /\ logger \in BOOLEAN
  /\ call = NoCall
  /\ driveCall = NoCall
  /\ result = NoCall
  /\ logged = <<>>
  /\ events = <<>>
  /\ kv = EmptyStore
  /\ fs = NoEntry

\* one write, with any document, options and answers of the store
NextWrite ==
  \/ /\ call = NoCall
     /\ \E d \in ValidDocuments, o \in WriteOptions, a \in WriteAnswers,
            r \in RootChoices : Create(d, o, a, r)
  \/ /\ call = NoCall
     /\ \E d \in ValidDocuments, o \in WriteOptions, a \in WriteAnswers,
            r \in RootChoices : Update(d, o, a, r)
  \/ /\ call = NoCall
     /\ \E i \in DocIds, o \in WriteOptions, a \in WriteAnswers,
            r \in RootChoices : Delete(i, o, a, r)

SpecWrite == InitCall /\ [][NextWrite]_vars

InitQuery == InitCall /\ logger /\ Cardinality(docs) # 1

\* one query, with any options and any answer of the store
NextQuery ==
  \/ /\ call = NoCall
     /\ \E o \in Options, a \in QueryAnswers : Find(o, a)
  \/ /\ call = NoCall
     /\ \E o \in Options, a \in QueryAnswers : Prove(o, a)

SpecQuery == InitQuery /\ [][NextQuery]_vars

-----------------------------------------------------------------------------
(* Properties of create, update and delete *)

IsWrite == call.op \in {"create", "update", "delete"}

\* what the store call of the last write came to, as the caller should see it
StoreOutcome ==
  IF driveCall.answered.ok
  THEN Returned(StorageResult(Undefined,
         <<PreCalculatedOperation(driveCall.answered.value.storageFee,
                                  driveCall.answered.value.processingFee,
                                  driveCall.answered.value.feeRefunds)>>))
  ELSE Thrown(driveCall.answered.error)

RootHashFailed == driveCall.root.read /\ ~driveCall.root.ok

\* C1: with a logger, when reading the root hash for the log entry fails, the
\* caller of create, update or delete still receives the outcome of the store
\* call: the StorageResult if it succeeded, the store's error if it failed.
C1_OutcomeSurvivesRootHashFailure ==
  (IsWrite /\ logger /\ RootHashFailed) => result = StoreOutcome

\* C2: with a logger, every call of create and of update emits exactly one log
\* entry (content hash of the document, useTransaction, dryRun, the root hash
\* read after the store call), after the store call and before the call
\* returns or throws, on success and on failure.
C2_ExactlyOneLogEntry ==
  (call.op \in {"create", "update"} /\ logger) =>
    /\ Len(logged) = 1
    /\ logged[1].documentHash = [sha256 |-> call.document]
    /\ logged[1].useTransaction = Boolean(call.options.fields["useTransaction"])
    /\ logged[1].dryRun = Boolean(call.options.fields["dryRun"])
    /\ logged[1].appHash = [hex |-> RootHash(docs)]
    /\ \E i, j, k \in 1..Len(events) :
         /\ i < j /\ j < k /\ k = Len(events)
         /\ events[i] = driveCall.method
         /\ events[j] = "logger.info"
         /\ events[k] \in {"return", "throw"}

\* the last call was an update that succeeded and was no dry run
UpdateCommitted ==
  /\ call.op = "update"
  /\ result.ok
  /\ ~Truthy(call.options.fields["dryRun"])

-----------------------------------------------------------------------------
(* Properties of find and prove *)

IsQuery == call.op \in {"find", "prove"}

\* the store call of the last query failed
StoreFailed == IsQuery /\ ~driveCall.answered.ok

\* the message the store failed with
StoreMessage == driveCall.answered.error.message

\* the prefixes as the specification writes them: a word and a colon
BarePrefixes ==
  {Chop(QueryPrefix), Chop(StructurePrefix), Chop(ContractPrefix),
   Chop(ProtocolPrefix)}

\* the prefixes find looks for: a word, a colon and a space
FindPrefixes == {QueryPrefix, StructurePrefix, ContractPrefix, ProtocolPrefix}

\* the prefixes prove looks for
ProvePrefixes == {QueryPrefix, StructurePrefix, ContractPrefix}

\* message m without its prefix p
Stripped(m, p) == SubSeq(m, Len(p) + 1, Len(m))

\* the last call threw an InvalidQueryError with this message
ThrewInvalidQuery(message) ==
  /\ ~result.ok
  /\ result.error.name = "InvalidQueryError"
  /\ result.error.message = message

\* the last call threw an InvalidQueryError whose message is m without its
\* prefix p, with or without the space that follows p
ThrewStripped(m, p) ==
  \/ ThrewInvalidQuery(Stripped(m, p))
  \/ StartsWith(m, p \o <<" ">>) /\ ThrewInvalidQuery(Stripped(m, p \o <<" ">>))

\* the last call threw the very error the store raised
RethrewStoreError == ~result.ok /\ result.error = driveCall.answered.error

\* C3, as stated: whenever the store's query fails with a message that begins
\* with 'query:', 'structure:', 'contract:' or 'protocol:', find throws
\* InvalidQueryError with that prefix stripped and the rest verbatim (a space
\* after the colon may go with the prefix).
C3_BarePrefixReclassified ==
  \A p \in BarePrefixes :
    (call.op = "find" /\ StoreFailed /\ StartsWith(StoreMessage, p)) =>
      ThrewStripped(StoreMessage, p)

\* C3, amended: whenever the store's query fails with a message that begins
\* with 'query: ', 'structure: ', 'contract: ' or 'protocol: ' (the colon
\* followed by one space), find throws InvalidQueryError whose message is what
\* follows that space, verbatim.
C3_SpacedPrefixReclassified ==
  \A p \in FindPrefixes :
    (call.op = "find" /\ StoreFailed /\ StartsWith(StoreMessage, p)) =>
      ThrewInvalidQuery(Stripped(StoreMessage, p))

C3_Witness ==
  /\ call.op = "find"
  /\ StoreFailed
  /\ StoreMessage = StructurePrefix \o QueryPrefix \o <<"b">>
  /\ ThrewInvalidQuery(QueryPrefix \o <<"b">>)

\* C4, as stated: prove turns a failure prefixed 'query:', 'structure:' or
\* 'contract:' into InvalidQueryError with the prefix stripped, re-raises a
\* failure prefixed 'protocol:' as the identical error, and find turns that
\* same failure into InvalidQueryError.
C4_BarePrefixAsymmetry ==
  /\ \A p \in BarePrefixes \ {Chop(ProtocolPrefix)} :
       (call.op = "prove" /\ StoreFailed /\ StartsWith(StoreMessage, p)) =>
         ThrewStripped(StoreMessage, p)
  /\ (call.op = "prove" /\ StoreFailed
        /\ StartsWith(StoreMessage, Chop(ProtocolPrefix))) => RethrewStoreError
  /\ (call.op = "find" /\ StoreFailed
        /\ StartsWith(StoreMessage, Chop(ProtocolPrefix))) =>
         (~result.ok /\ result.error.name = "InvalidQueryError")

\* C4, amended: the prefixes end in one space.  prove turns a failure prefixed
\* 'query: ', 'structure: ' or 'contract: ' into InvalidQueryError with the
\* prefix stripped, re-raises a failure prefixed 'protocol: ' as the identical
\* error, and find turns that same failure into InvalidQueryError.
C4_SpacedPrefixAsymmetry ==
  /\ \A p \in ProvePrefixes :
       (call.op = "prove" /\ StoreFailed /\ StartsWith(StoreMessage, p)) =>
         ThrewInvalidQuery(Stripped(StoreMessage, p))
  /\ (call.op = "prove" /\ StoreFailed /\ StartsWith(StoreMessage, ProtocolPrefix)) =>
       RethrewStoreError
  /\ (call.op = "find" /\ StoreFailed /\ StartsWith(StoreMessage, ProtocolPrefix)) =>
       ThrewInvalidQuery(Stripped(StoreMessage, ProtocolPrefix))

C4_Witness ==
  /\ call.op = "prove"
  /\ StoreFailed
  /\ StoreMessage = ProtocolPrefix \o <<"b">>
  /\ RethrewStoreError

\* the prefixes the last query's catch block looks for
Recognized == IF call.op = "find" THEN FindPrefixes ELSE ProvePrefixes

\* C5: a failure of the store during find or prove whose message carries
\* none of the prefixes that operation recognizes reaches the caller as the
\* identical error: not swallowed, not replaced, not turned into a result.
C5_UnrecognizedRethrown ==
  (StoreFailed /\ \A p \in Recognized : ~StartsWith(StoreMessage, p)) =>
    RethrewStoreError

C5_Witness ==
  /\ call.op = "find"
  /\ StoreFailed
  /\ StoreMessage = <<"s", "t", "o", "r", "a", "g", "e", ":", " ", "b">>
  /\ RethrewStoreError

\* C6: the query find forwards to the store holds none of useTransaction,
\* dryRun and blockInfo, and every other key of the options whose value is
\* not undefined is forwarded with its value.
C6_FindForwardsQueryFieldsOnly ==
  call.op = "find" =>
    /\ \A k \in {"useTransaction", "dryRun", "blockInfo"} :
         driveCall.query.fields[k] = Absent
    /\ \A k \in Keys \ {"useTransaction", "dryRun", "blockInfo"} :
         call.options.fields[k] \notin {Absent, Undefined} =>
           driveCall.query.fields[k] = call.options.fields[k]

C6_Witness ==
  /\ call.op = "find"
  /\ call.options.fields["useTransaction"] = "true"
  /\ call.options.fields["dryRun"] = "true"
  /\ call.options.fields["blockInfo"] = "block1"
  /\ call.options.fields["where"] = "id1"
  /\ driveCall.query.fields["where"] = "id1"

\* C7: the query prove forwards to the store holds none of useTransaction,
\* dryRun and blockInfo.
C7_ProveForwardsNoControlKey ==
  call.op = "prove" =>
    \A k \in {"useTransaction", "dryRun", "blockInfo"} :
      driveCall.query.fields[k] = Absent

\* C8: find and prove drop every top-level field whose value is undefined
\* from the forwarded query, and forward a query field that is explicitly
\* null as null.
C8_UndefinedDroppedNullKept ==
  IsQuery =>
    /\ \A k \in Keys :
         call.options.fields[k] = Undefined => driveCall.query.fields[k] = Absent
    /\ \A k \in QueryKeys :
         call.options.fields[k] = Null => driveCall.query.fields[k] = Null

C8_Witness ==
  /\ call.op = "prove"
  /\ call.options.fields["where"] = Null
  /\ call.options.fields["startAt"] = Undefined
  /\ driveCall.query.fields["where"] = Null
  /\ driveCall.query.fields["startAt"] = Absent

-----------------------------------------------------------------------------
(* Errors and effects of the writes *)

\* the last call threw an error of this name
ThrewNamed(name) == ~result.ok /\ result.error.name = name

\* the documents stored under the identity of the last update when it began
StoredBefore == Stored(before, call.document.id)

\* C11: update fails with NotFoundError when the identity of the document is
\* not in the store, and with RevisionConflictError when the supplied revision
\* is not the stored revision plus one; in both cases the store is left as it
\* was.
C11_UpdateRejects ==
  call.op = "update" =>
    /\ StoredBefore = {} => (ThrewNamed("NotFoundError") /\ docs = before)
    /\ (StoredBefore # {}
          /\ \A d \in StoredBefore : call.document.revision # d.revision + 1) =>
         (ThrewNamed("RevisionConflictError") /\ docs = before)

\* the last call was a delete that succeeded and was no dry run
DeleteCommitted ==
  /\ call.op = "delete"
  /\ result.ok
  /\ ~Truthy(call.options.fields["dryRun"])

\* C12: after a successful delete (not a dry run) of a stored document, a find
\* for the same identifier that follows returns no document, and a second
\* delete of the same identifier that follows fails with NotFoundError.
C12_DeleteThenAbsent ==
  [][/\ (DeleteCommitted /\ call.id = 1 /\ call'.op = "find" /\ result'.ok) =>
          result'.value.value = {}
     /\ (DeleteCommitted /\ call'.op = "delete" /\ call'.id = call.id) =>
          (~result'.ok /\ result'.error.name = "NotFoundError")]_vars

\* the queries find may forward to the store
Queries == {FindQuery(o) : o \in ObjectOptions}

\* the last call was a write that asked for a dry run
IsDryRun == IsWrite /\ Truthy(call.options.fields["dryRun"])

\* C13: a create, update or delete called with dryRun true changes nothing a
\* find that follows can observe (every query selects the same documents
\* before and after it), and still returns a StorageResult whose fee
\* operation carries the cost the store reported for it.
C13_DryRunKeepsStateReturnsFee ==
  IsDryRun =>
    /\ \A q \in Queries : Matching(docs, q) = Matching(before, q)
    /\ driveCall.answered.ok => result = StoreOutcome

\* no two documents of the store share an identity
UniqueIds == \A d, e \in docs : d.id = e.id => d = e

\* C14: create fails with StoreWriteError when a document of the same
\* identity is already stored or when the commit of the store fails, and the
\* store never holds two documents of one identity.
C14_CreateRejectsDuplicate ==
  /\ (call.op = "create"
        /\ (Stored(before, call.document.id) # {} \/ ~driveCall.answered.ok)) =>
       (ThrewNamed("StoreWriteError") /\ docs = before)
  /\ UniqueIds

\* the fee result the store reported for the last write
ReportedFee == driveCall.answered.value

\* C15: a create, update or delete that succeeds returns a StorageResult with
\* no value and exactly one fee operation, whose storageFee, processingFee and
\* feeRefunds are the three values the store returned for that call; a call
\* whose store call failed returns no StorageResult; and the call succeeds
\* when the store call succeeded and the finally block did not throw.
C15_WriteReturnsStoreFee ==
  IsWrite =>
    /\ result.ok =>
         /\ driveCall.answered.ok
         /\ result.value.value = Undefined
         /\ Len(result.value.operations) = 1
         /\ result.value.operations[1].storageCost = ReportedFee.storageFee
         /\ result.value.operations[1].processingCost = ReportedFee.processingFee
         /\ result.value.operations[1].feeRefunds = ReportedFee.feeRefunds
    /\ ~driveCall.answered.ok => ~result.ok
    /\ (driveCall.answered.ok /\ ~RootHashFailed) => result.ok

C15_Witness ==
  /\ call.op = "create"
  /\ result.ok
  /\ ReportedFee = [storageFee |-> 0, processingFee |-> 1, feeRefunds |-> <<2>>]
  /\ result.value.operations =
       <<[storageCost |-> 0, processingCost |-> 1, feeRefunds |-> <<2>>]>>

-----------------------------------------------------------------------------
(* Fees and flags of the queries *)

\* C16: every find and every prove that succeeds returns a StorageResult with
\* exactly one fee operation, whose storageFee is 0, whose processingFee is
\* the processing cost the store reported for that call, and whose refunds
\* are empty.
C16_QueryFeeIsProcessingOnly ==
  (IsQuery /\ result.ok) =>
    /\ driveCall.answered.ok
    /\ Len(result.value.operations) = 1
    /\ result.value.operations[1].storageCost = 0
    /\ result.value.operations[1].processingCost = driveCall.answered.value.cost
    /\ result.value.operations[1].feeRefunds = {}

C16_Witness ==
  /\ call.op = "find"
  /\ result.ok
  /\ Cardinality(result.value.value) = 2
  /\ driveCall.answered.value.cost = MaxFee
  /\ result.value.operations[1].processingCost = MaxFee
  /\ result.value.operations[1].storageCost = 0

\* C17: for create, update, delete, find and prove, the useTransaction value
\* handed to the store is a boolean, equal to the caller's flag, and false
\* when the caller's options omit useTransaction.
C17_UseTransactionIsBoolean ==
  (IsWrite \/ IsQuery) =>
    /\ driveCall.useTransaction \in {"true", "false"}
    /\ driveCall.useTransaction = Boolean(call.options.fields["useTransaction"])
    /\ call.options.fields["useTransaction"] = Absent =>
         driveCall.useTransaction = "false"

-----------------------------------------------------------------------------
(* DocumentRepository.proveManyDocumentsFromDifferentContracts *)

\* the identifiers and document types a caller names; identifiers are
\* buffers the repository hands on as they are
ContractIds == {[id |-> "contract1"], [id |-> "contract2"]}
DocumentIds == {[id |-> "document1"], [id |-> "document2"]}
DocumentTypes == {"t", "u"}

\* { dataContractId, documentId, type }
Items ==
  [dataContractId : ContractIds, documentId : DocumentIds, type : DocumentTypes]

ItemLists == SeqsUpTo(Items, MaxItems)

\* Buffer.from([1]): the documents subtree of a contract
DocumentsByte == 1
\* Buffer.from([0]): the leaf under a document type
LeafByte == 0

\* Buffer.from(array of bytes)
BufferFromBytes(bytes) == [bytes |-> bytes]

\* Buffer.from(string)
BufferFromString(string) == [utf8 |-> string]

\* DataContractStoreRepository.TREE_PATH: the path of the contracts root
TREE_PATH == <<[root |-> "contracts"]>>

\* the path query of one item as it would be with the two markers exchanged
PathQuerySwapsMarkers(item) ==
  [path |-> TREE_PATH \o <<item.dataContractId,
                           BufferFromBytes(<<LeafByte>>),
                           BufferFromString(item.type),
                           BufferFromBytes(<<DocumentsByte>>)>>,
   query |-> [query |-> [items |-> <<[type |-> "key", key |-> item.documentId]>>]]]

\* the path query of one item
PathQuery(item) ==
  [path |-> TREE_PATH \o <<item.dataContractId,
                           BufferFromBytes(<<DocumentsByte>>),
                           BufferFromString(item.type),
                           BufferFromBytes(<<LeafByte>>)>>,
   query |-> [query |-> [items |-> <<[type |-> "key", key |-> item.documentId]>>]]]

\* documents.map(...) as it would be if it gave the queries in reverse order
ProveManyQueriesReversed(documents) ==
  [i \in 1..Len(documents) |-> PathQuery(documents[Len(documents) + 1 - i])]

\* documents.map(...): one path query per item, in the order of the items
ProveManyQueries(documents) ==
  [i \in 1..Len(documents) |-> PathQuery(documents[i])]

\* the document trees the store may hold: a contract and a document type
Trees == ContractIds \X DocumentTypes

\* the store locates a path when it leads to the leaf of a tree it holds
Located(path, held) ==
  \E tree \in held :
    path = TREE_PATH \o <<tree[1],
                          BufferFromBytes(<<DocumentsByte>>),
                          BufferFromString(tree[2]),
                          BufferFromBytes(<<LeafByte>>)>>

PathNotFoundError ==
  DriveError("Error", <<"p", "a", "t", "h">>)

\* the proof the store builds for path queries: its bytes grow with the
\* queries it covers and are never none
ManyProof(queries) ==
  [length |-> Len(queries) + 1,
   covers |-> {<<q.path, q.query.query.items[1].key>> : q \in {queries[i] : i \in 1..Len(queries)}}]

\* storage.proveQueryMany(queries): one proof of all the queries, or a failure
\* when one of the paths is not located
ProveQueryMany(queries, held) ==
  IF \E i \in 1..Len(queries) : ~Located(queries[i].path, held)
  THEN Thrown(PathNotFoundError)
  ELSE Returned(StorageResult(ManyProof(queries), <<>>))

\* proveMany as it would be if it turned a failure of the store into a result
\* without a proof
ProveManyResultSwallows(answered) ==
  IF answered.ok THEN answered ELSE Returned(StorageResult(Null, <<>>))

\* return this.storage.proveQueryMany(queries)
ProveManyResult(answered) == answered

ProveMany(documents, held) ==
  LET queries == ProveManyQueries(documents)
      answered == ProveQueryMany(queries, held)
      given == ProveManyResult(answered)
  IN /\ call' = [op |-> "proveMany", documents |-> documents]
     /\ driveCall' = [method |-> "proveQueryMany",
                      queries |-> queries,
                      held |-> held,
                      answered |-> answered,
                      root |-> NotRead]
     /\ result' = given
     /\ logged' = <<>>
     /\ events' = <<"proveQueryMany", IF given.ok THEN "return" ELSE "throw">>
     /\ before' = docs
     /\ UNCHANGED <<docs, logger, kv, fs>>

InitProve == InitCall /\ docs = {}

\* one proof request, with any items, on a store holding any of the trees
NextProve ==
  /\ call = NoCall
  /\ \E documents \in ItemLists, held \in SUBSET Trees : ProveMany(documents, held)

SpecProve == InitProve /\ [][NextProve]_vars

-----------------------------------------------------------------------------
(* Properties of proveManyDocumentsFromDifferentContracts *)

IsProveMany == call.op = "proveMany"

\* the positions of the items of the last call
ItemIndexes == 1..Len(call.documents)

\* C18: for every item, the path handed to the store is the contract root
\* path followed by the contract id, the documents marker (byte 1), the
\* document type and the leaf marker (byte 0), in that order, and the query
\* at that path asks for the single key documentId.
C18_PathOfEveryItem ==
  IsProveMany =>
    \A i \in ItemIndexes :
      LET path == driveCall.queries[i].path
          item == call.documents[i]
          n == Len(TREE_PATH)
      IN /\ Len(path) = n + 4
         /\ SubSeq(path, 1, n) = TREE_PATH
         /\ path[n + 1] = item.dataContractId
         /\ path[n + 2] = [bytes |-> <<1>>]
         /\ path[n + 3] = [utf8 |-> item.type]
         /\ path[n + 4] = [bytes |-> <<0>>]
         /\ driveCall.queries[i].query.query.items =
              <<[type |-> "key", key |-> item.documentId]>>

C18_Witness ==
  /\ IsProveMany
  /\ Len(call.documents) = MaxItems
  /\ call.documents[1].dataContractId # call.documents[2].dataContractId
  /\ call.documents[1].type # call.documents[2].type
  /\ driveCall.queries[2].path =
       TREE_PATH \o <<call.documents[2].dataContractId, [bytes |-> <<1>>],
                      [utf8 |-> call.documents[2].type], [bytes |-> <<0>>]>>

\* the requests the last call made to the store, in order
Requests == SelectSeq(events, LAMBDA e : e \notin {"return", "throw"})

\* C19: a call with N items makes exactly one proveQueryMany request to the
\* store, carrying exactly N path queries, the i-th of them for the i-th
\* item, and gives its caller the result of that request.
C19_OneBatchedRequest ==
  IsProveMany =>
    /\ Requests = <<"proveQueryMany">>
    /\ Len(driveCall.queries) = Len(call.documents)
    /\ \A i \in ItemIndexes :
         /\ driveCall.queries[i].path[Len(TREE_PATH) + 1] =
              call.documents[i].dataContractId
         /\ driveCall.queries[i].query.query.items[1].key =
              call.documents[i].documentId
    /\ result = driveCall.answered

C19_Witness ==
  /\ IsProveMany
  /\ Len(call.documents) = MaxItems
  /\ call.documents[1].documentId # call.documents[MaxItems].documentId
  /\ Len(driveCall.queries) = MaxItems
  /\ result.ok
  /\ result = driveCall.answered

\* the items of the last call whose path the store does not locate
NotLocated ==
  {i \in ItemIndexes : ~Located(driveCall.queries[i].path, driveCall.held)}

\* what a proof of all the items of the last call covers
AllCovered ==
  {<<PathQuery(call.documents[i]).path, call.documents[i].documentId>> :
     i \in ItemIndexes}

-----------------------------------------------------------------------------
(* DriveClient: the replies of the transport *)

\* an object member that may be missing: the keys that are there, and a
\* fixed value in the place of each one that is not
Has(object, key) == key \in object.keys

\* the error member of a JSON-RPC reply
ErrorObjects ==
  {[keys |-> K, code |-> c, message |-> m, data |-> d] :
     K \in SUBSET {"code", "message", "data"},
     c \in {0, -32000}, m \in {"", "boom"}, d \in {Undefined, "data1"}}

ErrorMembers ==
  {e \in ErrorObjects :
     /\ ~Has(e, "code") => e.code = 0
     /\ ~Has(e, "message") => e.message = ""
     /\ Has(e, "data") <=> e.data # Undefined}

BadClause == <<"b", "a", "d", " ", "c", "l", "a", "u", "s", "e">>

\* the info strings of the backend
Infos == {<<>>, QueryPrefix \o BadClause, <<"b">>}

\* the base64 payloads of the backend
Base64Values == {"", "AA==", "aGk="}

\* the response member of a result
ResponseObjects ==
  {[keys |-> K, code |-> c, value |-> v, info |-> i] :
     K \in SUBSET {"code", "value", "info"},
     c \in {0, 1}, v \in Base64Values, i \in Infos}

Responses ==
  {r \in ResponseObjects :
     /\ ~Has(r, "code") => r.code = 0
     /\ ~Has(r, "value") => r.value = ""
     /\ ~Has(r, "info") => r.info = <<>>}

NoResponse == [keys |-> {}, code |-> 0, value |-> "", info |-> <<>>]
NoError == [keys |-> {}, code |-> 0, message |-> "", data |-> Undefined]

\* the error the transport rejects with when the backend is not reached
ConnectionError ==
  [name |-> "Error", message |-> "connect ECONNREFUSED", origin |-> "transport"]

\* what client.request('abci_query', ...) settles with: a rejection, or a
\* reply whose error member is an object, null or missing and whose result
\* member is missing or an object with or without a response
Replies ==
  {[settled |-> "rejected", error |-> "absent", errorObject |-> NoError,
    result |-> "absent", response |-> NoResponse]}
    \cup
  {[settled |-> "resolved", error |-> "object", errorObject |-> e,
    result |-> k, response |-> NoResponse] :
     e \in ErrorMembers, k \in {"absent", "empty"}}
    \cup
  {[settled |-> "resolved", error |-> "object", errorObject |-> e,
    result |-> "response", response |-> r] :
     e \in ErrorMembers, r \in {q \in Responses : q.keys = {"code", "value"}}}
    \cup
  {[settled |-> "resolved", error |-> k, errorObject |-> NoError,
    result |-> "response", response |-> r] :
     k \in {"absent", "null"}, r \in Responses}
    \cup
  {[settled |-> "resolved", error |-> k, errorObject |-> NoError,
    result |-> j, response |-> NoResponse] :
     k \in {"absent", "null"}, j \in {"absent", "empty"}}

-----------------------------------------------------------------------------
(* DriveClient.request *)

\* cbor.encode(data)
CborEncode(data) == [cbor |-> data]

\* buffer.toString('hex')
ToHex(buffer) == [hex |-> buffer]

\* Buffer.from(value, 'base64')
Base64Decode(value) ==
  CASE value = "" -> <<>>
    [] value = "AA==" -> <<0>>
    [] value = "aGk=" -> <<104, 105>>

\* error.code || -32602
DefaultErrorCode == -32602

\* error.message || 'Internal error'
DefaultErrorMessage == "Internal error"

\* new RPCError(code, message, data)
RPCError(code, message, data) ==
  [name |-> "RPCError", code |-> code, message |-> message, data |-> data,
   origin |-> "client"]

\* the TypeError of reading a property of undefined or null, or of
\* Buffer.from(undefined, 'base64')
TypeError ==
  [name |-> "TypeError", message |-> "not an object", origin |-> "client"]

\* createGrpcErrorFromDriveResponse(code, info): an info that carries one of
\* the known prefixes becomes an InvalidQueryError with the prefix stripped,
\* any other a backend error of that code and message
CreateGrpcErrorFromDriveResponse(code, info) ==
  IF info.given /\ \E p \in FindPrefixes : StartsWith(info.text, p)
  THEN InvalidQueryError(
         Stripped(info.text,
                  CHOOSE p \in FindPrefixes : StartsWith(info.text, p)))
  ELSE [name |-> "BackendError", code |-> code,
        message |-> IF info.given THEN info.text ELSE <<>>,
        origin |-> "backend"]

\* a parameter with a default value: the default stands in for undefined
DefaultParameter(argument, default) ==
  IF argument \in {Absent, Undefined} THEN default ELSE argument

\* request as it would be without the default of prove
RequestProveNoDefault(prove) == prove

\* prove = false
RequestProve(prove) == DefaultParameter(prove, "false")

\* no data given
NoData == [given |-> FALSE, object |-> <<>>]

\* data = {}
RequestData(data) == IF data.given THEN data.object ELSE <<>>

\* the error thrown for the error member, as it would be if a missing code
\* were left undefined
ErrorOfMemberNoDefault(error) ==
  RPCError(error.code,
           IF ~Has(error, "message") \/ error.message = ""
           THEN DefaultErrorMessage ELSE error.message,
           error.data)

\* new RPCError(error.code || -32602, error.message || 'Internal error',
\* error.data)
ErrorOfMember(error) ==
  RPCError(IF ~Has(error, "code") \/ error.code = 0
           THEN DefaultErrorCode ELSE error.code,
           IF ~Has(error, "message") \/ error.message = ""
           THEN DefaultErrorMessage ELSE error.message,
           error.data)

\* response.code === undefined || response.code === 0
IsSuccessCode(response) == ~Has(response, "code") \/ response.code = 0

\* the handling of the response as it would be if code 1 counted as success
HandleResponseLenient(response) ==
  IF ~Has(response, "code") \/ response.code \in {0, 1}
  THEN IF Has(response, "value")
       THEN Returned(Base64Decode(response.value))
       ELSE Thrown(TypeError)
  ELSE Thrown(CreateGrpcErrorFromDriveResponse(
                response.code,
                [given |-> Has(response, "info"), text |-> response.info]))

\* lines 52 to 57: the payload for a success code, the translated error for
\* any other
HandleResponse(response) ==
  IF IsSuccessCode(response)
  THEN IF Has(response, "value")
       THEN Returned(Base64Decode(response.value))
       ELSE Thrown(TypeError)
  ELSE Thrown(CreateGrpcErrorFromDriveResponse(
                response.code,
                [given |-> Has(response, "info"), text |-> response.info]))

\* what request gives its caller for what the transport settled with
RequestOutcome(reply) ==
  IF reply.settled = "rejected"
  THEN Thrown(ConnectionError)
  ELSE IF reply.error = "object"
  THEN Thrown(ErrorOfMember(reply.errorObject))
  ELSE IF reply.result # "response"
  THEN Thrown(TypeError)
  ELSE HandleResponse(reply.response)

\* request as it would be if it sent the call again after a rejection
RequestSendsRetrying(reply) ==
  IF reply.settled = "rejected"
  THEN <<"abci_query", "abci_query">>
  ELSE <<"abci_query">>

\* the calls request makes to the backend
RequestSends(reply) == <<"abci_query">>

\* the steps of request, in order: the parameters with their defaults, the
\* encoding of the data, the call, the handling of the reply, the outcome
RequestEvents(reply, outcome) ==
  <<"build", "encode">>
    \o RequestSends(reply)
    \o (IF reply.settled = "resolved" THEN <<"decode">> ELSE <<>>)
    \o <<IF outcome.ok THEN "return" ELSE "throw">>

\* cbor.decode(responseBuffer)
CborDecode(buffer) == [decoded |-> buffer]

\* requestCbor: the decoded payload of request
RequestCborOutcome(outcome) ==
  IF outcome.ok THEN Returned(CborDecode(outcome.value)) ELSE outcome

\* a call of a method of the client that ends in request(path, data, prove)
ClientCall(method, arguments, path, data, prove, reply, decoded) ==
  LET outcome == RequestOutcome(reply)
  IN /\ call' = [op |-> method, arguments |-> arguments]
     /\ driveCall' = [method |-> "abci_query",
                      requestOptions |->
                        [path |-> path,
                         data |-> ToHex(CborEncode(RequestData(data))),
                         prove |-> RequestProve(prove)],
                      object |-> RequestData(data),
                      reply |-> reply,
                      outcome |-> outcome]
     /\ result' = IF decoded THEN RequestCborOutcome(outcome) ELSE outcome
     /\ logged' = <<>>
     /\ events' = RequestEvents(reply, outcome)
     /\ before' = docs
     /\ UNCHANGED <<docs, logger, kv, fs>>

-----------------------------------------------------------------------------
(* DriveClient: the fetch methods *)

\* the values a caller gives for prove; "absent" is an argument not given
ProveArguments == {Absent, Undefined, "true", "false"}

Identifiers == {"id1", "id2"}

Object(object) == [given |-> TRUE, object |-> object]

\* the options of fetchDocuments: none, query options, and options that
\* carry contractId and type themselves
DocumentsOptions ==
  {NoData,
   Object([where |-> "where1"]),
   Object([where |-> "where1", limit |-> "limit1", startAt |-> "id2"]),
   Object([where |-> "where1", contractId |-> "other", type |-> "otherType"])}

\* { ...options }: the own properties of options, none for undefined
Spread(options) == IF options.given THEN options.object ELSE <<>>

\* fetchDocuments as it would be with the options spread last
FetchDocumentsDataOptionsLast(contractId, type, options) ==
  Spread(options) @@ [contractId |-> contractId, type |-> type]

\* { ...options, contractId, type }: a later key replaces an earlier one
FetchDocumentsData(contractId, type, options) ==
  [contractId |-> contractId, type |-> type] @@ Spread(options)

\* the argument of fetchProofs: each of the three lists, or undefined
ProofsArguments ==
  [documents : {Undefined, "documents1"},
   identityIds : {Undefined, "identityIds1"},
   dataContractIds : {Undefined, "dataContractIds1"}]

PathsOfRequest == {"/dataContracts", "/identities"}

Request(path, data, prove, reply) ==
  ClientCall("request", [path |-> path, data |-> data, prove |-> prove],
             path, data, prove, reply, FALSE)

FetchDataContract(contractId, prove, reply) ==
  ClientCall("fetchDataContract", [contractId |-> contractId, prove |-> prove],
             "/dataContracts", Object([id |-> contractId]), prove, reply, FALSE)

FetchDocuments(contractId, type, options, prove, reply) ==
  ClientCall("fetchDocuments",
             [contractId |-> contractId, type |-> type, options |-> options,
              prove |-> prove],
             "/dataContracts/documents",
             Object(FetchDocumentsData(contractId, type, options)),
             prove, reply, FALSE)

FetchIdentity(id, prove, reply) ==
  ClientCall("fetchIdentity", [id |-> id, prove |-> prove],
             "/identities", Object([id |-> id]), prove, reply, FALSE)

FetchIdentitiesByPublicKeyHashes(publicKeyHashes, prove, reply) ==
  ClientCall("fetchIdentitiesByPublicKeyHashes",
             [publicKeyHashes |-> publicKeyHashes, prove |-> prove],
             "/identities/by-public-key-hash",
             Object([publicKeyHashes |-> publicKeyHashes]), prove, reply, FALSE)

\* fetchProofs goes through requestCbor, and gives no prove argument
FetchProofs(lists, reply) ==
  ClientCall("fetchProofs", [lists |-> lists, prove |-> Absent],
             "/proofs",
             Object([documents |-> lists.documents,
                     identityIds |-> lists.identityIds,
                     dataContractIds |-> lists.dataContractIds]),
             Absent, reply, TRUE)

\* one call of the client, with any arguments and any reply of the transport
NextClient ==
  \/ /\ call = NoCall
     /\ \E path \in PathsOfRequest, data \in {NoData, Object([id |-> "id1"])},
           prove \in ProveArguments, reply \in Replies :
          Request(path, data, prove, reply)
  \/ /\ call = NoCall
     /\ \E id \in Identifiers, prove \in ProveArguments, reply \in Replies :
          FetchDataContract(id, prove, reply)
  \/ /\ call = NoCall
     /\ \E options \in DocumentsOptions, prove \in ProveArguments,
           reply \in Replies :
          FetchDocuments("id1", "type1", options, prove, reply)
  \/ /\ call = NoCall
     /\ \E id \in Identifiers, prove \in ProveArguments, reply \in Replies :
          FetchIdentity(id, prove, reply)
  \/ /\ call = NoCall
     /\ \E prove \in ProveArguments, reply \in Replies :
          FetchIdentitiesByPublicKeyHashes("hashes1", prove, reply)
  \/ /\ call = NoCall
     /\ \E lists \in ProofsArguments, reply \in Replies :
          FetchProofs(lists, reply)

\* a client over a transport; the repository is not involved
InitClient == InitCall /\ docs = {} /\ ~logger

SpecClient == InitClient /\ [][NextClient]_vars

-----------------------------------------------------------------------------
(* Properties of DriveClient *)

ClientMethods ==
  {"request", "fetchDataContract", "fetchDocuments", "fetchIdentity",
   "fetchIdentitiesByPublicKeyHashes", "fetchProofs"}

IsClientCall == call.op \in ClientMethods

\* the reply of the transport to the last call, and what request made of it
Reply == driveCall.reply
Outcome == driveCall.outcome

\* the reply carries an error member that is an object
HasErrorMember == Reply.settled = "resolved" /\ Reply.error = "object"

\* the reply carries no error and a result with a response
HasResponse ==
  Reply.settled = "resolved" /\ Reply.error # "object" /\ Reply.result = "response"

\* a failure of the transport: no connection, an error member, or a reply
\* with neither an error member nor a result with a response
TransportFailed == IsClientCall /\ ~HasResponse

\* C21: every transport-level failure of a request, a connection failure as
\* well as a reply with neither a usable result nor an error member, reaches
\* the caller as an RPCError; no other error type escapes.
C21_TransportFailureIsRPCError ==
  TransportFailed => (~Outcome.ok /\ Outcome.error.name = "RPCError")

\* C22: a response whose code is 0 or absent is a success: request returns
\* the base64-decoded bytes of the response value and throws nothing; a
\* response with any other code returns no payload.
C22_SuccessCodeReturnsPayload ==
  (IsClientCall /\ HasResponse) =>
    IF ~Has(Reply.response, "code") \/ Reply.response.code = 0
    THEN Outcome = Returned(Base64Decode(Reply.response.value))
    ELSE ~Outcome.ok

\* the info of the response of the last reply, as request hands it on
InfoOfReply ==
  [given |-> Has(Reply.response, "info"), text |-> Reply.response.info]

\* C23: for every response with a nonzero code, request throws the error
\* translated from that code and the info string; a response with code 1 and
\* info 'query: bad clause' surfaces as InvalidQueryError with the message
\* 'bad clause'.
C23_NonzeroCodeThrowsTranslated ==
  (IsClientCall /\ HasResponse /\ Has(Reply.response, "code")
     /\ Reply.response.code # 0) =>
    /\ Outcome =
         Thrown(CreateGrpcErrorFromDriveResponse(Reply.response.code, InfoOfReply))
    /\ (Reply.response.code = 1 /\ InfoOfReply.given
          /\ InfoOfReply.text = QueryPrefix \o BadClause) =>
         (/\ Outcome.error.name = "InvalidQueryError"
          /\ Outcome.error.message = BadClause)

C23_Witness ==
  /\ call.op = "fetchDocuments"
  /\ HasResponse
  /\ Reply.response.code = 1
  /\ Reply.response.info = QueryPrefix \o BadClause
  /\ ~result.ok
  /\ result.error.name = "InvalidQueryError"
  /\ result.error.message = BadClause

\* how the last request ended
EndedIn ==
  {o \in {"Success", "BackendError", "TransportError"} :
     \/ o = "Success" /\ Outcome.ok
     \/ o = "BackendError" /\ ~Outcome.ok /\ HasResponse
          /\ ~IsSuccessCode(Reply.response)
     \/ o = "TransportError" /\ ~Outcome.ok
          /\ (~HasResponse \/ IsSuccessCode(Reply.response))}

\* C24: each request goes through build, encode, send and, once the
\* transport has replied, the decoding of the reply, in that order; it makes
\* exactly one abci_query call, whatever the outcome, and ends in exactly
\* one of Success, BackendError and TransportError.
C24_OneSendOneOutcome ==
  IsClientCall =>
    /\ SubSeq(events, 1, 3) = <<"build", "encode", "abci_query">>
    /\ Len(SelectSeq(events, LAMBDA e : e = "abci_query")) = 1
    /\ Reply.settled = "resolved" =>
         (Len(events) = 5 /\ events[4] = "decode")
    /\ Reply.settled = "rejected" => Len(events) = 4
    /\ events[Len(events)] \in {"return", "throw"}
    /\ Cardinality(EndedIn) = 1

C24_Witness ==
  /\ call.op = "request"
  /\ Reply.settled = "rejected"
  /\ events = <<"build", "encode", "abci_query", "throw">>
  /\ EndedIn = {"TransportError"}

\* C25: every abci_query carries the three fields path, data and prove, with
\* prove the flag the caller gave, and the boolean false when the caller
\* gave none.
C25_ProveSentOrFalse ==
  IsClientCall =>
    /\ DOMAIN driveCall.requestOptions = {"path", "data", "prove"}
    /\ driveCall.requestOptions.prove =
         IF call.arguments.prove \in {Absent, Undefined}
         THEN "false" ELSE call.arguments.prove

C25_Witness ==
  /\ call.op = "fetchDataContract"
  /\ call.arguments.prove = Absent
  /\ driveCall.requestOptions.prove = "false"

\* the path and the data of every method of the client
PathOf(method) ==
  CASE method = "fetchDataContract" -> "/dataContracts"
    [] method = "fetchDocuments" -> "/dataContracts/documents"
    [] method = "fetchIdentity" -> "/identities"
    [] method = "fetchIdentitiesByPublicKeyHashes" -> "/identities/by-public-key-hash"
    [] method = "fetchProofs" -> "/proofs"
    [] method = "request" -> call.arguments.path

\* C26: each fetch method sends on its one path with its parameter shape:
\* {id}, the options plus contractId and type (always the arguments, also
\* when the options carry keys of the same name), {id}, {publicKeyHashes},
\* {documents, identityIds, dataContractIds}.
C26_PathAndShapeOfMethod ==
  (IsClientCall /\ call.op # "request") =>
    /\ driveCall.requestOptions.path = PathOf(call.op)
    /\ driveCall.requestOptions.data = ToHex(CborEncode(driveCall.object))
    /\ call.op = "fetchDataContract" =>
         driveCall.object = [id |-> call.arguments.contractId]
    /\ call.op = "fetchIdentity" =>
         driveCall.object = [id |-> call.arguments.id]
    /\ call.op = "fetchIdentitiesByPublicKeyHashes" =>
         driveCall.object = [publicKeyHashes |-> call.arguments.publicKeyHashes]
    /\ call.op = "fetchProofs" =>
         driveCall.object = call.arguments.lists
    /\ call.op = "fetchDocuments" =>
         LET given == Spread(call.arguments.options)
         IN /\ DOMAIN driveCall.object = DOMAIN given \cup {"contractId", "type"}
            /\ driveCall.object["contractId"] = call.arguments.contractId
            /\ driveCall.object["type"] = call.arguments.type
            /\ \A k \in DOMAIN given \ {"contractId", "type"} :
                 driveCall.object[k] = given[k]

C26_Witness ==
  /\ call.op = "fetchDocuments"
  /\ "contractId" \in DOMAIN Spread(call.arguments.options)
  /\ Spread(call.arguments.options)["contractId"] = "other"
  /\ driveCall.object["contractId"] = "id1"
  /\ driveCall.object["where"] = "where1"
  /\ driveCall.requestOptions.path = "/dataContracts/documents"

\* C28, as stated: when the reply carries an error member, request throws
\* RPCError whatever the result member; its code is the reply's code, or
\* -32602 when that is missing, its message the reply's message, or
\* 'Internal error' when that is missing, its data the reply's data.
C28_MissingFieldsDefaulted ==
  (IsClientCall /\ HasErrorMember) =>
    Outcome =
      Thrown(RPCError(IF Has(Reply.errorObject, "code")
                      THEN Reply.errorObject.code ELSE -32602,
                      IF Has(Reply.errorObject, "message")
                      THEN Reply.errorObject.message ELSE "Internal error",
                      Reply.errorObject.data))

\* C28, amended: when the reply carries an error member, request throws
\* RPCError whatever the result member; its code is the reply's code, or
\* -32602 when that is missing or 0, its message the reply's message, or
\* 'Internal error' when that is missing or empty, its data the reply's data.
C28_FalsyFieldsDefaulted ==
  (IsClientCall /\ HasErrorMember) =>
    Outcome =
      Thrown(RPCError(IF Has(Reply.errorObject, "code") /\ Reply.errorObject.code # 0
                      THEN Reply.errorObject.code ELSE -32602,
                      IF Has(Reply.errorObject, "message")
                           /\ Reply.errorObject.message # ""
                      THEN Reply.errorObject.message ELSE "Internal error",
                      Reply.errorObject.data))

C28_Witness ==
  /\ IsClientCall
  /\ HasErrorMember
  /\ Reply.result = "response"
  /\ Reply.errorObject.keys = {"data"}
  /\ Outcome = Thrown(RPCError(-32602, "Internal error", "data1"))


-----------------------------------------------------------------------------
(* The caller's options after find and prove *)

\* C27: find and prove never modify the options object the caller passed, at
\* any depth: after the call returned or threw, the caller's options hold
\* useTransaction, dryRun, blockInfo and every undefined-valued field as
\* before, and the query handed to the store has no object in common with them
C27_OptionsUntouched ==
  IsQuery =>
    /\ call.optionsAfter = call.options
    /\ driveCall.shares = {}

\* a find that threw, called with all three control fields and an undefined
\* field, none of which the forwarded query has
C27_Witness ==
  /\ call.op = "find"
  /\ ~result.ok
  /\ call.options.kind = "object"
  /\ call.options.fields["useTransaction"] = "true"
  /\ call.options.fields["dryRun"] = "true"
  /\ call.options.fields["blockInfo"] = "block1"
  /\ call.options.fields["where"] = Undefined
  /\ driveCall.query # call.options
  /\ call.optionsAfter = call.options

-----------------------------------------------------------------------------
(* The key-value storage (GroveDBStore) *)

\* the transaction argument: none given (undefined), or the open transaction
Transactions == {Undefined, "transaction1"}

\* a value held under a key
Value(bytes) == [present |-> TRUE, bytes |-> bytes]

\* storage.put(key, value, transaction): into the transaction when one is
\* given, into the committed state otherwise
StoragePut(store, value, transaction) ==
  IF transaction = Undefined
  THEN [store EXCEPT !.committed = Value(value)]
  ELSE [store EXCEPT !.inTransaction = Value(value)]

\* storage.get(key, transaction): what the transaction wrote when one is given
\* and it wrote the key, the committed value otherwise; null when there is none
StorageGet(store, transaction) ==
  IF transaction # Undefined /\ store.inTransaction.present
  THEN store.inTransaction
  ELSE store.committed

-----------------------------------------------------------------------------
(* CreditsDistributionPool and its encoding *)

\* the amounts of the pools handed to store: they cross the one-byte, two-byte
\* and three-byte forms of a CBOR unsigned integer
Amounts == {0, 1, 23, 24, 255, 256}

\* new CreditsDistributionPool(amount)
CreditsDistributionPool(amount) == [amount |-> amount]

\* new CreditsDistributionPool()
NewCreditsDistributionPool == CreditsDistributionPool(0)

\* creditsDistributionPool.toJSON()
ToJSON(pool) == [amount |-> pool.amount]

\* a CBOR unsigned integer
CborUnsigned(n) ==
  IF n < 24 THEN <<n>>
  ELSE IF n < 256 THEN <<24, n>>
  ELSE <<25, n \div 256, n % 256>>

\* the CBOR head of { amount: ... }: a map of one pair whose key is the text
\* "amount"
CborAmountMap == <<161, 102, 97, 109, 111, 117, 110, 116>>

\* cbor.encodeCanonical({ amount })
EncodeCanonical(json) == CborAmountMap \o CborUnsigned(json.amount)

\* the unsigned integer a CBOR item encodes
CborUnsignedValue(item) ==
  IF item[1] < 24 THEN item[1]
  ELSE IF item[1] = 24 THEN item[2]
  ELSE item[2] * 256 + item[3]

\* cbor.decode(encoded) of an encoded { amount: ... }
Decode(encoded) ==
  [amount |-> CborUnsignedValue(SubSeq(encoded, Len(CborAmountMap) + 1,
                                       Len(encoded)))]

-----------------------------------------------------------------------------
(* CreditsDistributionPoolCommonStoreRepository *)

COMMON_STORE_KEY_NAME == "CreditsDistributionPool"

\* fetch as it would be if it took every stored value for a missing one
PoolOfEncodedAlwaysNew(encoded) == NewCreditsDistributionPool

\* if (!encoded) return new CreditsDistributionPool();
\* const { amount } = cbor.decode(encoded); return new CreditsDistributionPool(amount)
PoolOfEncoded(encoded) ==
  IF ~encoded.present
  THEN NewCreditsDistributionPool
  ELSE CreditsDistributionPool(Decode(encoded.bytes).amount)

\* what fetch(transaction) returns from a store
FetchOutcome(store, transaction) ==
  Returned(PoolOfEncoded(StorageGet(store, transaction)))

\* store(creditsDistributionPool, transaction)
PoolStore(pool, transaction) ==
  LET encoded == EncodeCanonical(ToJSON(pool))
  IN /\ kv' = StoragePut(kv, encoded, transaction)
     /\ call' = [op |-> "poolStore", pool |-> pool, transaction |-> transaction]
     /\ driveCall' = [method |-> "put", key |-> COMMON_STORE_KEY_NAME,
                      value |-> Value(encoded), transaction |-> transaction]
     /\ result' = Returned("this")
     /\ logged' = <<>>
     /\ events' = <<"put", "return">>
     /\ UNCHANGED <<docs, before, logger, fs>>

\* fetch(transaction)
PoolFetch(transaction) ==
  /\ call' = [op |-> "poolFetch", transaction |-> transaction]
  /\ driveCall' = [method |-> "get", key |-> COMMON_STORE_KEY_NAME,
                   value |-> StorageGet(kv, transaction),
                   transaction |-> transaction]
  /\ result' = FetchOutcome(kv, transaction)
  /\ logged' = <<>>
  /\ events' = <<"get", "return">>
  /\ UNCHANGED <<docs, before, logger, kv, fs>>

InitPool == InitCall /\ docs = {} /\ ~logger

NextPool ==
  \/ \E amount \in Amounts, transaction \in Transactions :
       PoolStore(CreditsDistributionPool(amount), transaction)
  \/ \E transaction \in Transactions : PoolFetch(transaction)

SpecPool == InitPool /\ [][NextPool]_vars

-----------------------------------------------------------------------------
(* Properties of the pool repository *)

\* C29: a fetch after store(pool), under the same transaction argument,
\* returns a pool with the amount of the stored pool, whatever was stored
\* before (the last store wins); a fetch that finds nothing under the key
\* returns a newly constructed pool and does not fail
C29_FetchReturnsLastStored ==
  /\ call.op = "poolStore" =>
       /\ FetchOutcome(kv, call.transaction).ok
       /\ FetchOutcome(kv, call.transaction).value.amount = call.pool.amount
  /\ call.op = "poolFetch" =>
       /\ result.ok
       /\ result.value = PoolOfEncoded(StorageGet(kv, call.transaction))
       /\ ~driveCall.value.present => result.value = NewCreditsDistributionPool
       /\ (driveCall.value.present /\ ~kv.inTransaction.present) =>
            EncodeCanonical(ToJSON(result.value)) = kv.committed.bytes

\* a fetch in the transaction that returned the three-byte amount stored in
\* it, over another amount that was committed
C29_Witness ==
  /\ call.op = "poolFetch"
  /\ call.transaction = "transaction1"
  /\ kv.inTransaction.present
  /\ kv.committed.present
  /\ result.ok
  /\ result.value.amount = 256
  /\ kv.committed.bytes # kv.inTransaction.bytes

-----------------------------------------------------------------------------
(* The file system at HOME_DIR_PATH *)

HOME_DIR_PATH == "homeDirPath"

\* 0o700
HomeDirMode == 448

\* permission bits an entry may have: 0o700, 0o755, 0o555, 0o444
Modes == {HomeDirMode, 493, 365, 292}

\* the bits mkdirSync gives a new directory (0o777 without the umask):
\* 0o755, 0o775
CreatedModes == {493, 509}

\* what the process may do with an entry
Accesses == SUBSET {"r", "w", "x"}

\* what may be at HOME_DIR_PATH: nothing, a directory or a regular file
Entries ==
  {NoEntry} \cup
  [kind : {"dir", "file"}, mode : Modes, access : Accesses]

\* the directory mkdirSync made, which the process owns
Directory(mode) == [kind |-> "dir", mode |-> mode, access |-> {"r", "w", "x"}]

\* fs.existsSync(HOME_DIR_PATH): true for an entry of any kind
ExistsSync(entry) == entry.kind # "none"

\* fs.accessSync(HOME_DIR_PATH, R_OK | W_OK) does not throw
AccessSync(entry) == {"r", "w"} \subseteq entry.access

HomeDirIsNotWritableError ==
  [name |-> "HomeDirIsNotWritableError", path |-> HOME_DIR_PATH]

CouldNotCreateHomeDirError ==
  [name |-> "CouldNotCreateHomeDirError", path |-> HOME_DIR_PATH]

-----------------------------------------------------------------------------
(* ensureHomeDir *)

\* the entry ensureHomeDir leaves at HOME_DIR_PATH, what it gives its caller
\* and the file-system calls it made, for the entry it found and for what
\* mkdirSync and chmodSync did
EnsureHomeDirRun(entry, mkdirOk, created, chmodOk) ==
  IF ExistsSync(entry)
  THEN IF AccessSync(entry)
       THEN [entry |-> entry, outcome |-> Returned(HOME_DIR_PATH),
             calls |-> <<"existsSync", "accessSync", "return">>]
       ELSE [entry |-> entry, outcome |-> Thrown(HomeDirIsNotWritableError),
             calls |-> <<"existsSync", "accessSync", "throw">>]
  ELSE IF ~mkdirOk
  THEN [entry |-> entry, outcome |-> Thrown(CouldNotCreateHomeDirError),
        calls |-> <<"existsSync", "mkdirSync", "throw">>]
  ELSE IF ~chmodOk
  THEN [entry |-> Directory(created),
        outcome |-> Thrown(CouldNotCreateHomeDirError),
        calls |-> <<"existsSync", "mkdirSync", "chmodSync", "throw">>]
  ELSE [entry |-> Directory(HomeDirMode),
        outcome |-> Returned(HOME_DIR_PATH),
        calls |-> <<"existsSync", "mkdirSync", "chmodSync", "return">>]

EnsureHomeDir(mkdirOk, created, chmodOk) ==
  LET run == EnsureHomeDirRun(fs, mkdirOk, created, chmodOk)
  IN /\ fs' = run.entry
     /\ call' = [op |-> "ensureHomeDir"]
     /\ driveCall' = [method |-> "fs", found |-> fs]
     /\ result' = run.outcome
     /\ logged' = <<>>
     /\ events' = run.calls
     /\ UNCHANGED <<docs, before, logger, kv>>

\* somebody else replaces what is at HOME_DIR_PATH between two calls
ChangeEntry(entry) ==
  /\ entry # fs
  /\ fs' = entry
  /\ call' = [op |-> "changeEntry"]
  /\ driveCall' = [method |-> "fs", found |-> fs]
  /\ result' = Returned(Undefined)
  /\ logged' = <<>>
  /\ events' = <<>>
  /\ UNCHANGED <<docs, before, logger, kv>>

InitHome == InitCall /\ docs = {} /\ ~logger

NextHome ==
  \/ \E mkdirOk \in BOOLEAN, created \in CreatedModes, chmodOk \in BOOLEAN :
       EnsureHomeDir(mkdirOk, created, chmodOk)
  \/ \E entry \in Entries : ChangeEntry(entry)

SpecHome == InitHome /\ [][NextHome]_vars

-----------------------------------------------------------------------------
(* Properties of ensureHomeDir *)

IsEnsureHomeDir == call.op = "ensureHomeDir"

Made(name) == \E i \in DOMAIN events : events[i] = name

\* C30: ensureHomeDir returns the home directory path only when the directory
\* exists at return time; what already exists is never re-created or
\* re-chmodded, and the call throws HomeDirIsNotWritableError when it is not
\* both readable and writable; what does not exist is created and set to mode
\* 0700, and a failure of the creation or of the chmod is reported as
\* CouldNotCreateHomeDirError
C30_ReturnsOnlyWithDirectory ==
  IsEnsureHomeDir =>
    /\ result.ok => (result.value = HOME_DIR_PATH /\ fs.kind = "dir")
    /\ driveCall.found.kind # "none" =>
         /\ fs = driveCall.found
         /\ ~Made("mkdirSync") /\ ~Made("chmodSync")
         /\ ~({"r", "w"} \subseteq driveCall.found.access) =>
              (~result.ok /\ result.error = HomeDirIsNotWritableError)
    /\ driveCall.found.kind = "none" =>
         /\ Made("mkdirSync")
         /\ result.ok => fs = Directory(448)
         /\ ~result.ok => result.error = CouldNotCreateHomeDirError

\* the same for the calls that find a directory or nothing at HOME_DIR_PATH
C30_HoldsWithoutFile ==
  (IsEnsureHomeDir /\ driveCall.found.kind # "file") =>
    C30_ReturnsOnlyWithDirectory
====
